---- MODULE Spec2Model ----
(***************************************************************************)
(* Kale Graph: the line parser (src/src/parser.ts, parseSource) and the    *)
(* canvas renderer (src/src/graph-renderer.ts, KaleGraphRenderer.draw).    *)
(*                                                                         *)
(* A source line is a sequence of tokens: a word (a maximal run of \w      *)
(* characters, kept as its sequence of characters), a run of whitespace,   *)
(* or one punctuation character.  The regular expressions of parser.ts are *)
(* evaluated over these tokens.  Vertex indices are 0-based as in the      *)
(* code; TLA+ sequences are 1-based, so vertices[k + 1] is the code's      *)
(* vertices[k].                                                            *)
(***************************************************************************)
EXTENDS Integers, Sequences, FiniteSets, TLC

VARIABLES pc, line, i, firstLine, flags, vertices, edges, matrix, graph, err,
          ei, seenEdges, commands, el, consumed, settings, draws, previous

vars == <<pc, line, i, firstLine, flags, vertices, edges, matrix, graph, err,
          ei, seenEdges, commands, el, consumed, settings, draws, previous>>

-----------------------------------------------------------------------------
(* Bounds of the model: the number of lines of the source text, and the *)
(* number of calls of draw() on one renderer                           *)

MaxLines == 5

MaxDraws == 2

-----------------------------------------------------------------------------
(* Tokens and lines *)

W(s) == [t |-> "w", s |-> s]
Sym(c) == [t |-> c, s |-> <<>>]
SP == Sym(" ")

Digits == <<"0", "1", "2", "3", "4", "5", "6", "7", "8", "9">>

IsDigit(c) == \E d \in 1..Len(Digits) : Digits[d] = c

DigitValue(c) == (CHOOSE d \in 1..Len(Digits) : Digits[d] = c) - 1

RECURSIVE parseInt(_)
parseInt(s) ==
    IF s = <<>> THEN 0
    ELSE 10 * parseInt(SubSeq(s, 1, Len(s) - 1)) + DigitValue(s[Len(s)])

At(l, p, t) == p >= 1 /\ p <= Len(l) /\ l[p].t = t

SkipSp(l, p) == IF At(l, p, " ") THEN p + 1 ELSE p

-----------------------------------------------------------------------------
(* Constants of parser.ts *)

DEFAULT_FLAGS ==
    [directed |-> FALSE, simple |-> FALSE, auto |-> FALSE, flipped |-> FALSE]

FLAG_PREFIX == "-"

INVISIBLE_VERTEX_PREFIX == "_"

Contains(l, c) ==
    \E p \in 1..Len(l) :
        /\ l[p].t = "w"
        /\ \E q \in 1..Len(l[p].s) : l[p].s[q] = c

FlagLetters == [directed |-> "d", simple |-> "s", auto |-> "a", flipped |-> "f"]

parseFlags_Everything(l) == [f \in DOMAIN FlagLetters |-> TRUE]

parseFlags(l) ==
    [f \in {g \in DOMAIN FlagLetters : Contains(l, FlagLetters[g])} |-> TRUE]

ObjectAssign(target, src) ==
    [f \in DOMAIN target \cup DOMAIN src |->
        IF f \in DOMAIN src THEN src[f] ELSE target[f]]

StartsWithFlagPrefix(l) == At(l, 1, FLAG_PREFIX)

startsWith(name, prefix) == Len(name) >= 1 /\ name[1] = prefix

(* COMMENT_PATTERN = /\/\/.+/ : two slashes followed by at least one    *)
(* character; the leftmost match, 0 when there is none                  *)
COMMENT_PATTERN(l) ==
    LET starts == {p \in 1..(Len(l) - 2) : At(l, p, "/") /\ At(l, p + 1, "/")}
    IN  IF starts = {} THEN 0
        ELSE CHOOSE p \in starts : \A q \in starts : p <= q

(* line.replace(COMMENT_PATTERN, "") *)
replaceComment(l) ==
    IF COMMENT_PATTERN(l) = 0 THEN l ELSE SubSeq(l, 1, COMMENT_PATTERN(l) - 1)

RECURSIVE trim(_)
trim(l) ==
    IF At(l, 1, " ") THEN trim(Tail(l))
    ELSE IF At(l, Len(l), " ") THEN trim(SubSeq(l, 1, Len(l) - 1))
    ELSE l

(* the map step of parseSource on one line of source.split("\n") *)
cleanLine(raw) == trim(replaceComment(raw))

(* EDGE_VALIDATE_PATTERN and EDGE_SEARCH_PATTERN *)
EdgeGroupEnd(l, p) ==
    LET q1 == SkipSp(l, p + 1)
        q2 == SkipSp(l, q1 + 1)
        q3 == SkipSp(l, q2 + 1)
        q4 == SkipSp(l, q3 + 1)
    IN  IF /\ At(l, p, "(") /\ At(l, q1, "w") /\ At(l, q2, ",")
           /\ At(l, q3, "w") /\ At(l, q4, ")")
        THEN q4 + 1
        ELSE 0

EdgeGroupNames_Swapped(l, p) ==
    LET q1 == SkipSp(l, p + 1)
        q3 == SkipSp(l, SkipSp(l, q1 + 1) + 1)
    IN  <<l[q3].s, l[q1].s>>

EdgeGroupNames(l, p) ==
    LET q1 == SkipSp(l, p + 1)
        q3 == SkipSp(l, SkipSp(l, q1 + 1) + 1)
    IN  <<l[q1].s, l[q3].s>>

EdgeSeparatorEnd(l, p) ==
    LET r == SkipSp(l, p)
    IN  IF At(l, r, ",") THEN SkipSp(l, r + 1) ELSE p

RECURSIVE EdgeValidFrom(_, _)
EdgeValidFrom(l, p) ==
    LET e == EdgeGroupEnd(l, p)
    IN  IF e = 0 THEN FALSE
        ELSE LET n == EdgeSeparatorEnd(l, e)
             IN  IF n > Len(l) \/ e > Len(l) THEN TRUE ELSE EdgeValidFrom(l, n)

EDGE_VALIDATE_PATTERN(l) == EdgeValidFrom(l, 1)

RECURSIVE EdgeSearchFrom(_, _)
EdgeSearchFrom(l, p) ==
    IF p > Len(l) THEN <<>>
    ELSE LET e == EdgeGroupEnd(l, p)
         IN  IF e = 0 THEN EdgeSearchFrom(l, p + 1)
             ELSE <<EdgeGroupNames(l, p)>> \o EdgeSearchFrom(l, e)

EDGE_SEARCH_PATTERN(l) == EdgeSearchFrom(l, 1)

(* ADJACENCY_MATRIX_VALIDATE_PATTERN and ADJACENCY_MATRIX_SEARCH_PATTERN *)
AllDigits(s) == \A q \in 1..Len(s) : IsDigit(s[q])

ADJACENCY_MATRIX_VALIDATE_PATTERN(l) ==
    /\ Len(l) >= 1
    /\ \A p \in 1..Len(l) : l[p].t = " " \/ (l[p].t = "w" /\ AllDigits(l[p].s))

IsWordToken(tok) == tok.t = "w"

(* on a line that passed the validate pattern every word is one run of digits *)
ADJACENCY_MATRIX_SEARCH_PATTERN(l) ==
    LET ws == SelectSeq(l, IsWordToken)
    IN  [m \in 1..Len(ws) |-> ws[m].s]

(* VERTEX_VALIDATE_PATTERN, PATH_VALIDATE_PATTERN and their search patterns *)
RECURSIVE ListValidFrom(_, _, _, _)
ListValidFrom(l, p, sep, trailing) ==
    /\ At(l, p, "w")
    /\ LET q == SkipSp(l, p + 1)
       IN  \/ q > Len(l)
           \/ trailing /\ At(l, q, sep) /\ q = Len(l)
           \/ At(l, q, sep) /\ ListValidFrom(l, SkipSp(l, q + 1), sep, trailing)

VERTEX_VALIDATE_PATTERN(l) == ListValidFrom(l, 1, ",", TRUE)

PATH_VALIDATE_PATTERN(l) == ListValidFrom(l, 1, "-", FALSE)

RECURSIVE ListSearchFrom(_, _, _)
ListSearchFrom(l, p, sep) ==
    IF p > Len(l) THEN <<>>
    ELSE LET q == SkipSp(l, p + 1)
         IN  IF At(l, p, "w") /\ (q > Len(l) \/ At(l, q, sep))
             THEN <<l[p].s>> \o ListSearchFrom(l, p + 1, sep)
             ELSE ListSearchFrom(l, p + 1, sep)

VERTEX_SEARCH_PATTERN_Distinct(l) ==
    LET ms == ListSearchFrom(l, 1, ",")
        keep == {q \in 1..Len(ms) : \A r \in 1..(q - 1) : ms[r] # ms[q]}
    IN  [x \in 1..Cardinality(keep) |->
            ms[CHOOSE q \in keep : Cardinality({r \in keep : r < q}) = x - 1]]

VERTEX_SEARCH_PATTERN(l) == ListSearchFrom(l, 1, ",")

PATH_SEARCH_PATTERN_NoRepeat(l) ==
    LET ms == ListSearchFrom(l, 1, "-")
        keep == {q \in 1..Len(ms) : q = 1 \/ ms[q - 1] # ms[q]}
    IN  [x \in 1..Cardinality(keep) |->
            ms[CHOOSE q \in keep : Cardinality({r \in keep : r < q}) = x - 1]]

PATH_SEARCH_PATTERN(l) == ListSearchFrom(l, 1, "-")

-----------------------------------------------------------------------------
(* errors.ts: cancelParse / cancelRender throw an error of one of four classes *)

NoError == [name |-> "none", message |-> "", line |-> 0]

NoGraph == [flags |-> DEFAULT_FLAGS, vertices |-> <<>>, edges |-> <<>>]

cancelParse(message, lineNo) ==
    [name |-> "ParseError", message |-> message, line |-> lineNo]

cancelRender(message, unexpected) ==
    [name |-> IF unexpected THEN "UnexpectedRenderError" ELSE "RenderError",
     message |-> message, line |-> 0]

-----------------------------------------------------------------------------
(* parseSource: the body of the loop over the lines *)

indexOf_Highest(vs, name) ==
    IF \E p \in 1..Len(vs) : vs[p] = name
    THEN (CHOOSE p \in 1..Len(vs) :
            vs[p] = name /\ \A q \in (p + 1)..Len(vs) : vs[q] # name) - 1
    ELSE -1

(* Array.prototype.indexOf: the first index of the name, -1 when absent *)
indexOf(vs, name) ==
    IF \E p \in 1..Len(vs) : vs[p] = name
    THEN (CHOOSE p \in 1..Len(vs) :
            vs[p] = name /\ \A q \in 1..(p - 1) : vs[q] # name) - 1
    ELSE -1

resolveVertex_OffByOne(vs, name, auto) ==
    LET idx == indexOf(vs, name)
    IN  IF idx # -1 THEN [vertices |-> vs, index |-> idx]
        ELSE IF auto THEN [vertices |-> Append(vs, name), index |-> Len(vs) + 1]
        ELSE [vertices |-> vs, index |-> -1]

resolveVertex_AlwaysPush(vs, name, auto) ==
    LET idx == indexOf(vs, name)
    IN  IF auto THEN [vertices |-> Append(vs, name), index |-> Len(vs)]
        ELSE [vertices |-> vs, index |-> idx]

(* indexOf, then push when the auto flag is set; index -1 stands for the throw *)
resolveVertex(vs, name, auto) ==
    LET idx == indexOf(vs, name)
    IN  IF idx # -1 THEN [vertices |-> vs, index |-> idx]
        ELSE IF auto THEN [vertices |-> Append(vs, name), index |-> Len(vs)]
        ELSE [vertices |-> vs, index |-> -1]

RECURSIVE edgeLoop(_, _, _, _)
edgeLoop(matches, vs, es, auto) ==
    IF matches = <<>> THEN [ok |-> TRUE, vertices |-> vs, edges |-> es]
    ELSE LET from == resolveVertex(vs, matches[1][1], auto)
             to == resolveVertex(from.vertices, matches[1][2], auto)
         IN  IF from.index = -1 \/ to.index = -1
             THEN [ok |-> FALSE, vertices |-> vs, edges |-> es]
             ELSE edgeLoop(Tail(matches), to.vertices,
                           es \o <<from.index, to.index>>, auto)

RECURSIVE pathLoop(_, _, _, _, _)
pathLoop(matches, vs, es, lastVertexIndex, auto) ==
    IF matches = <<>> THEN [ok |-> TRUE, vertices |-> vs, edges |-> es]
    ELSE LET v == resolveVertex(vs, matches[1], auto)
         IN  IF v.index = -1
             THEN [ok |-> FALSE, vertices |-> vs, edges |-> es]
             ELSE pathLoop(Tail(matches), v.vertices,
                           IF lastVertexIndex # -1
                           THEN es \o <<lastVertexIndex, v.index>>
                           ELSE es,
                           v.index, auto)

matrixRow_PerRun(l) ==
    LET matches == ADJACENCY_MATRIX_SEARCH_PATTERN(l)
    IN  [c \in 1..Len(matches) |-> parseInt(matches[c])]

(* one cell per digit of a single match, one cell per match otherwise *)
matrixRow(l) ==
    LET matches == ADJACENCY_MATRIX_SEARCH_PATTERN(l)
    IN  IF Len(matches) = 1
        THEN [c \in 1..Len(matches[1]) |-> parseInt(<<matches[1][c]>>)]
        ELSE [c \in 1..Len(matches) |-> parseInt(matches[c])]

Locals(fl, vs, es, m) ==
    [err |-> NoError, flags |-> fl, vertices |-> vs, edges |-> es, matrix |-> m]

Thrown(e) ==
    [err |-> e, flags |-> DEFAULT_FLAGS, vertices |-> <<>>, edges |-> <<>>,
     matrix |-> <<>>]

matrixConflict_Never(m, l) == FALSE

(* the guard at the top of the loop body *)
matrixConflict(m, l) == Len(m) > 0 /\ ~ADJACENCY_MATRIX_VALIDATE_PATTERN(l)

(* one iteration of the loop of parseSource on line l, lines[i] of the code *)
parseLine(l) ==
    IF matrixConflict(matrix, l)
    THEN Thrown(cancelParse(
            "An adjacency matrix cannot be combined with other edge definitions", 0))
    ELSE IF firstLine /\ StartsWithFlagPrefix(l)
    THEN Locals(ObjectAssign(flags, parseFlags(Tail(l))), vertices, edges, matrix)
    ELSE IF EDGE_VALIDATE_PATTERN(l)
    THEN LET r == edgeLoop(EDGE_SEARCH_PATTERN(l), vertices, edges, flags.auto)
         IN  IF r.ok THEN Locals(flags, r.vertices, r.edges, matrix)
             ELSE Thrown(cancelParse("Undefined vertex in edge on line", i + 1))
    ELSE IF ADJACENCY_MATRIX_VALIDATE_PATTERN(l)
    THEN IF Len(edges) > 0
         THEN Thrown(cancelParse(
                "An adjacency matrix follow other edge definitions", 0))
         ELSE LET row == matrixRow(l)
              IN  IF Len(matrix) > 0 /\ Len(row) # Len(matrix[1])
                  THEN Thrown(cancelParse("Matrix rows must be of equal width", 0))
                  ELSE Locals(flags, vertices, edges, Append(matrix, row))
    ELSE IF VERTEX_VALIDATE_PATTERN(l)
    THEN Locals(flags, vertices \o VERTEX_SEARCH_PATTERN(l), edges, matrix)
    ELSE IF PATH_VALIDATE_PATTERN(l)
    THEN LET r == pathLoop(PATH_SEARCH_PATTERN(l), vertices, edges, -1, flags.auto)
         IN  IF r.ok THEN Locals(flags, r.vertices, r.edges, matrix)
             ELSE Thrown(cancelParse("Undefined vertex in path on line", i + 1))
    ELSE Thrown(cancelParse("Invalid input on line", i + 1))

-----------------------------------------------------------------------------
(* parseSource: after the loop *)

RECURSIVE offsetLoop(_, _, _, _)
offsetLoop(vs, p, offset, acc) ==
    IF p > Len(vs) THEN acc
    ELSE IF startsWith(vs[p], INVISIBLE_VERTEX_PREFIX)
    THEN offsetLoop(vs, p + 1, offset + 1, acc)
    ELSE offsetLoop(vs, p + 1, offset, Append(acc, offset))

vertexOffsets_NoOffset(vs) == [x \in 1..Len(offsetLoop(vs, 1, 0, <<>>)) |-> 0]

vertexOffsets(vs) == offsetLoop(vs, 1, 0, <<>>)

(* visibleVertices is only used for its length *)
visibleVerticesLength(vs) == Len(vertexOffsets(vs))

edgeCount_HalveDirected(fl, r, c, value) ==
    IF r = c THEN value \div 2 ELSE value

edgeCount_NoHalving(fl, r, c, value) == value

(* the number of edges pushed for a cell: a diagonal cell of an undirected *)
(* graph is halved                                                         *)
edgeCount(fl, r, c, value) ==
    IF ~fl.directed /\ r = c THEN value \div 2 ELSE value

Repeat(pair, count) == [x \in 1..(2 * count) |-> pair[((x - 1) % 2) + 1]]

matrixCell_IgnoreFlipped(m, fl, r, c) == m[r + 1][c + 1]

matrixCell(m, fl, r, c) ==
    IF fl.flipped THEN m[c + 1][r + 1] ELSE m[r + 1][c + 1]

oppositeCell_SameCell(m, fl, r, c) == matrixCell(m, fl, r, c)

(* oppositeValue: the mirrored cell *)
oppositeCell(m, fl, r, c) ==
    IF fl.flipped THEN m[r + 1][c + 1] ELSE m[c + 1][r + 1]

(* the two nested loops over the matrix, cell number = r * n + c *)
RECURSIVE matrixLoop(_, _, _, _, _)
matrixLoop(cell, es, m, fl, offs) ==
    LET n == Len(m)
        r == cell \div n
        c == cell % n
        value == matrixCell(m, fl, r, c)
        oppositeValue == oppositeCell(m, fl, r, c)
        pair == <<r + offs[r + 1], c + offs[c + 1]>>
    IN  IF cell >= n * n THEN [err |-> NoError, edges |-> es]
        ELSE IF ~fl.directed /\ c > r THEN matrixLoop(cell + 1, es, m, fl, offs)
        ELSE IF ~fl.directed /\ value # oppositeValue
        THEN [err |-> cancelParse(
                "Adjacency matrix of an undirected graph must be symmetrical", 0),
              edges |-> <<>>]
        ELSE IF ~fl.directed /\ r = c /\ value % 2 # 0
        THEN [err |-> cancelParse(
                "All vertices in an adjacency matrix of an undirected graph must connect to itself an even amount of times", 0),
              edges |-> <<>>]
        ELSE matrixLoop(cell + 1,
                        es \o Repeat(pair, edgeCount(fl, r, c, value)),
                        m, fl, offs)

widthMismatch_Never(m, n) == FALSE

(* matrix[0].length !== visibleVertices.length *)
widthMismatch(m, n) == Len(m[1]) # n

materializeMatrix(fl, vs, es, m) ==
    IF Len(m) = 0 THEN [err |-> NoError, edges |-> es]
    ELSE IF Len(m) # visibleVerticesLength(vs)
    THEN [err |-> cancelParse("Matrix height must match number of vertices", 0),
          edges |-> <<>>]
    ELSE IF widthMismatch(m, visibleVerticesLength(vs))
    THEN [err |-> cancelParse("Matrix width must match number of vertices", 0),
          edges |-> <<>>]
    ELSE matrixLoop(0, es, m, fl, vertexOffsets(vs))

-----------------------------------------------------------------------------
(* The source lines offered to the parser (after comment stripping, trim   *)
(* and the removal of empty lines, parser.ts:41-44)                        *)

RECURSIVE Join(_, _)
Join(ws, sep) ==
    IF Len(ws) <= 1 THEN ws
    ELSE <<ws[1]>> \o sep \o Join(Tail(ws), sep)

Name(chars) == chars

Words(ns) == [k \in 1..Len(ns) |-> W(ns[k])]

VertexLine(ns) == Join(Words(ns), <<Sym(",")>>)

PathLine(ns) == Join(Words(ns), <<Sym("-")>>)

EdgeGroup(pr) == <<Sym("("), W(pr[1]), Sym(","), W(pr[2]), Sym(")")>>

RECURSIVE EdgeLine(_)
EdgeLine(prs) ==
    IF Len(prs) = 0 THEN <<>>
    ELSE IF Len(prs) = 1 THEN EdgeGroup(prs[1])
    ELSE EdgeGroup(prs[1]) \o <<Sym(",")>> \o EdgeLine(Tail(prs))

CompactRow(ds) == <<W(ds)>>

SpacedRow(runs) == Join(Words(runs), <<SP>>)

FlagLine(letters) ==
    IF letters = <<>> THEN <<Sym(FLAG_PREFIX)>> ELSE <<Sym(FLAG_PREFIX), W(letters)>>

vA == <<"a">>
vB == <<"b">>
vC == <<"c">>
vD == <<"d">>
vInv == <<"_">>
vInvB == <<"_", "b">>

FlagLines ==
    {FlagLine(ls) : ls \in {<<>>, <<"d">>, <<"a">>, <<"s">>, <<"x", "f">>}}

VertexForms == {<<vA>>, <<vA, vB>>, <<vInv>>, <<vA, vInvB, vB>>}

EdgeForms ==
    {<< <<vA, vB>> >>, << <<vB, vA>>, <<vA, vB>> >>, << <<vA, vInv>> >>,
     << <<vA, vA>> >>, << <<vC, vA>> >>}

PathForms ==
    {<<vA, vB>>, <<vA, vB, vA>>, <<vInvB, vB>>, <<vA, vA, vA>>, <<vA, vB, vC, vA>>}

VertexLines == {VertexLine(ns) : ns \in VertexForms}

EdgeLines == {EdgeLine(prs) : prs \in EdgeForms}

PathLines == {PathLine(ns) : ns \in PathForms}

MatrixLines ==
    {CompactRow(ds) : ds \in {<<"2">>, <<"0", "1">>, <<"1", "0">>}}
        \cup {SpacedRow(runs) : runs \in {<< <<"0">>, <<"2">> >>}}

OtherLines ==
    { <<W(vA), SP, W(vB)>>,
      <<W(vA), Sym(","), SP, W(vB), Sym(",")>>,
      EdgeGroup(<<vA, vB>>) \o <<SP>> \o EdgeGroup(<<vA, vB>>),
      EdgeGroup(<<vA, vB>>) \o EdgeGroup(<<vB, vA>>) \o <<Sym(",")>>,
      <<W(vA), SP, Sym("-"), SP, W(vB)>>,
      <<W(vA), Sym("-")>>,
      <<Sym("!")>> }

Lines == FlagLines \cup VertexLines \cup EdgeLines \cup PathLines
            \cup MatrixLines \cup OtherLines

(* the sources of the adjacency-matrix checks *)
MatrixFlagLines ==
    {FlagLine(ls) : ls \in {<<>>, <<"d">>, <<"f">>, <<"d", "f">>}}

MatrixVertexForms ==
    {<<vA>>, <<vInv>>, <<vInv, vA, vInvB, vB>>, <<vA, vB, vC, vD>>}

MatrixVertexLines == {VertexLine(ns) : ns \in MatrixVertexForms}

(* rows in compact form, as their sequences of digits *)
CompactForms ==
    {<<"0">>, <<"1">>, <<"2">>,
     <<"0", "0">>, <<"0", "1">>, <<"1", "0">>, <<"1", "2">>, <<"2", "1">>, <<"2", "0">>,
     <<"0", "0", "1", "1">>, <<"0", "2", "1", "0">>,
     <<"1", "1", "0", "0">>, <<"1", "0", "0", "4">>}

(* rows in spaced form, as their sequences of runs of digits *)
SpacedForms == {<< <<"0">>, <<"1">> >>}

MatrixRowLines ==
    {CompactRow(ds) : ds \in CompactForms} \cup {SpacedRow(runs) : runs \in SpacedForms}

MatrixSourceLines == MatrixFlagLines \cup MatrixVertexLines \cup MatrixRowLines

-----------------------------------------------------------------------------
(* parseSource as steps: one per line, and the code after the loop *)

(* lines[i] outside the loop *)
NoLine == <<>>

NoSeenEdges == [pr \in {} |-> 0]

(* main.ts DEFAULT_SETTINGS.render: the field the edge geometry reads *)
DEFAULT_SETTINGS == [bendiness |-> 10]

(* the post processor is entered with the render settings s *)
Enter(s) ==
    /\ pc = "parse"
    /\ line = NoLine
    /\ i = 0
    /\ firstLine = TRUE
    /\ flags = DEFAULT_FLAGS
    /\ vertices = <<>>
    /\ edges = <<>>
    /\ matrix = <<>>
    /\ graph = NoGraph
    /\ err = NoError
    /\ ei = 0
    /\ seenEdges = NoSeenEdges
    /\ commands = <<>>
    /\ el = <<>>
    /\ consumed = 0
    /\ settings = s
    /\ draws = 0
    /\ previous = <<>>

Init == Enter(DEFAULT_SETTINGS)

(* errors.ts renderError: the host's catch block appends the error element *)
showError(children) == Append(children, "kale-graph-error")

IsCanvas(child) == child = "kale-graph-canvas"

IsNotCanvas(child) == ~IsCanvas(child)

removeCanvas_Keeps(children) == children

(* "if (canvas) el.removeChild(canvas)" of the catch block *)
removeCanvas(children) == SelectSeq(children, IsNotCanvas)

(* a throw inside parseSource, caught by codeBlockPostProcessor: no canvas yet *)
ParseFailed(e) ==
    /\ pc' = "failed"
    /\ err' = e
    /\ flags' = DEFAULT_FLAGS
    /\ vertices' = <<>>
    /\ edges' = <<>>
    /\ matrix' = <<>>
    /\ el' = showError(el)
    /\ UNCHANGED <<firstLine, graph, ei, seenEdges, commands, consumed, settings,
                   draws, previous>>

(* the next line of the source text survives the filter and is lines[i] *)
ParseLine(raw) ==
    /\ pc = "parse"
    /\ consumed < MaxLines
    /\ Len(cleanLine(raw)) > 0
    /\ line' = cleanLine(raw)
    /\ LET r == parseLine(cleanLine(raw))
       IN  IF r.err # NoError
           THEN ParseFailed(r.err) /\ UNCHANGED i
           ELSE /\ flags' = r.flags
                /\ vertices' = r.vertices
                /\ edges' = r.edges
                /\ matrix' = r.matrix
                /\ firstLine' = FALSE
                /\ i' = i + 1
                /\ consumed' = consumed + 1
                /\ UNCHANGED <<pc, graph, err, ei, seenEdges, commands, el,
                               settings, draws, previous>>

(* the next line of the source text is empty after the comment is removed *)
(* and the line trimmed: the filter drops it                              *)
SkipLine(raw) ==
    /\ pc = "parse"
    /\ consumed < MaxLines
    /\ Len(cleanLine(raw)) = 0
    /\ consumed' = consumed + 1
    /\ UNCHANGED <<pc, line, i, firstLine, flags, vertices, edges, matrix, graph,
                   err, ei, seenEdges, commands, el, settings, draws, previous>>

EndOfLines ==
    /\ pc = "parse"
    /\ line' = NoLine
    /\ LET r == materializeMatrix(flags, vertices, edges, matrix)
       IN  IF r.err # NoError
           THEN ParseFailed(r.err) /\ UNCHANGED i
           ELSE /\ pc' = "parsed"
                /\ edges' = r.edges
                /\ graph' = [flags |-> flags, vertices |-> vertices, edges |-> r.edges]
                /\ UNCHANGED <<i, firstLine, flags, vertices, matrix, err,
                               ei, seenEdges, commands, el, consumed, settings,
                               draws, previous>>

-----------------------------------------------------------------------------
(* codeBlockPostProcessor and KaleGraphRenderer.draw *)

(* a throw inside draw(), caught by codeBlockPostProcessor *)
RenderFailed(e, children) ==
    /\ pc' = "failed"
    /\ err' = e
    /\ el' = showError(removeCanvas(children))

seenEdgesAtEntry_Kept(seen) == seen

(* "const seenEdges = new Map()": a local of draw(), whatever map an *)
(* earlier call built                                                *)
seenEdgesAtEntry(seen) == NoSeenEdges

(* the head of draw(): getCanvasProperties, the background, the empty map; *)
(* issued are the commands this call of draw() gave the context           *)
drawEntry(children, issued) ==
    \E ctx \in BOOLEAN :
        IF ~ctx
        THEN /\ RenderFailed(cancelRender("Failed to get canvas context", TRUE),
                             children)
             /\ commands' = issued
             /\ UNCHANGED <<ei, seenEdges>>
        ELSE /\ pc' = "edges"
             /\ el' = children
             /\ commands' = Append(issued, [op |-> "fillRect"])
             /\ ei' = 0
             /\ seenEdges' = seenEdgesAtEntry(seenEdges)
             /\ UNCHANGED err

(* the canvas is created, the renderer constructed and draw() entered *)
BeginDraw ==
    /\ pc = "parsed"
    /\ drawEntry(Append(el, "kale-graph-canvas"), commands)
    /\ draws' = draws + 1
    /\ UNCHANGED <<line, i, firstLine, flags, vertices, edges, matrix, graph,
                   consumed, settings, previous>>

(* draw() is called once more on the renderer that has drawn *)
DrawAgain ==
    /\ pc = "drawn"
    /\ draws < MaxDraws
    /\ drawEntry(el, <<>>)
    /\ draws' = draws + 1
    /\ previous' = commands
    /\ UNCHANGED <<line, i, firstLine, flags, vertices, edges, matrix, graph,
                   consumed, settings>>

(* seenEdges.has(x) && seenEdges.get(x).has(y): an inner map is created  *)
(* together with its first entry, so the nested maps are a map on pairs  *)
seenHas(seen, x, y) == <<x, y>> \in DOMAIN seen

seenSet_CountsOnce(seen, x, y, count) ==
    [pr \in DOMAIN seen \cup {<<x, y>>} |-> IF pr = <<x, y>> THEN 1 ELSE seen[pr]]

seenSet(seen, x, y, count) ==
    [pr \in DOMAIN seen \cup {<<x, y>>} |-> IF pr = <<x, y>> THEN count ELSE seen[pr]]

(* vertices[index] of the code: undefined when out of range *)
IsUndefinedVertex(g, index) ==
    \/ index < 0
    \/ index >= Len(g.vertices)
    \/ g.vertices[index + 1] = <<>>

touchesInvisible_FromOnly(g, fromIndex, toIndex) ==
    startsWith(g.vertices[fromIndex + 1], INVISIBLE_VERTEX_PREFIX)

(* the check "Disallow invisible vertices" *)
touchesInvisible(g, fromIndex, toIndex) ==
    \/ startsWith(g.vertices[fromIndex + 1], INVISIBLE_VERTEX_PREFIX)
    \/ startsWith(g.vertices[toIndex + 1], INVISIBLE_VERTEX_PREFIX)

displacement_Unsigned(bendiness, i0, j0, bend) ==
    IF i0 # j0 THEN bendiness * ((bend + 1) \div 2) * 2
    ELSE bendiness * (bend + 1) * 2

displacement_Floor(bendiness, i0, j0, bend) ==
    IF i0 # j0
    THEN bendiness * (bend \div 2) * 2 * (IF bend % 2 = 0 THEN 1 ELSE -1)
    ELSE bendiness * (bend + 1) * 2

displacement_LoopFromZero(bendiness, i0, j0, bend) ==
    IF i0 # j0
    THEN bendiness * ((bend + 1) \div 2) * 2 * (IF bend % 2 = 0 THEN 1 ELSE -1)
    ELSE bendiness * bend * 2

(* drawEdge: d, with Math.ceil(bend / 2) and (-1) ** bend on integers *)
displacement(bendiness, i0, j0, bend) ==
    IF i0 # j0
    THEN bendiness * ((bend + 1) \div 2) * 2 * (IF bend % 2 = 0 THEN 1 ELSE -1)
    ELSE bendiness * (bend + 1) * 2

arrowOf_IgnoreReverse(fl, i0, j0, reverse) ==
    IF fl.directed THEN <<i0, j0>> ELSE <<>>

(* drawEdge: the arrow is a triangle whose first corner lies at edgeAngle, *)
(* the direction from vertex i to vertex j, turned by pi when reverse is   *)
(* set: <<tail, head>>, or <<>> when no arrow is drawn                     *)
arrowOf(fl, i0, j0, reverse) ==
    IF ~fl.directed THEN <<>>
    ELSE IF reverse THEN <<j0, i0>>
    ELSE <<i0, j0>>

(* drawEdge: a straight segment when d === 0, an arc otherwise *)
strokeOf(d) == IF d = 0 THEN "line" ELSE "arc"

vertexPosition_AmongVisible(g, idx) ==
    [slot |-> Cardinality({q \in 1..idx :
                             ~startsWith(g.vertices[q], INVISIBLE_VERTEX_PREFIX)}),
     slots |-> Cardinality({q \in 1..Len(g.vertices) :
                             ~startsWith(g.vertices[q], INVISIBLE_VERTEX_PREFIX)})]

(* vertexPosition: the point at angle 2 * PI * i / vertices.length minus   *)
(* cornerAngle on the circle of radius bigRadius; cornerAngle depends on   *)
(* vertices.length only, so the point is given by the slot i and the       *)
(* number of slots vertices.length                                         *)
vertexPosition(g, idx) == [slot |-> idx, slots |-> Len(g.vertices)]

getCenter_VisibleParity(g) ==
    [shifted |-> Cardinality({q \in 1..Len(g.vertices) :
                    ~startsWith(g.vertices[q], INVISIBLE_VERTEX_PREFIX)}) % 2 = 1]

(* getCenter: the middle of the canvas, moved down by oddPolygonOffset *)
(* when vertices.length is odd                                         *)
getCenter(g) == [shifted |-> Len(g.vertices) % 2 = 1]

(* drawVertex: the marker at vertexPosition(i) from getCenter(), and the *)
(* label vertices[i] next to it                                          *)
drawVertex(g, idx) ==
    [op |-> "drawVertex", i |-> idx, position |-> vertexPosition(g, idx),
     center |-> getCenter(g), label |-> g.vertices[idx + 1]]

(* findCircle: the circle through (x1, y1), (x2, y2), (x3, y3) by two     *)
(* divisions, by 2 * (y31 * x12 - y21 * x13) and 2 * (x31 * y12 - x21 *   *)
(* y13); both divisors are zero exactly when the three points lie on one  *)
(* line, and the result is then NaN or Infinity                           *)
findCircle(collinear) ==
    IF collinear THEN "NaN" ELSE "circle"

(* drawEdge: circleX, circleY, r. The third point of findCircle is the    *)
(* middle of the two vertices moved by d along the normal of the edge, so *)
(* it lies on the line through the two vertices exactly when d is 0       *)
circleOf(i0, j0, d) ==
    IF i0 # j0
    THEN [by |-> "findCircle", third |-> d, result |-> findCircle(d = 0)]
    ELSE [by |-> "diameter", third |-> d, result |-> "circle"]

drawEdge_NeverReverse(from, to, bend, reverse) ==
    [op |-> "drawEdge", i |-> from, j |-> to, bend |-> bend, reverse |-> FALSE,
     d |-> displacement(settings.bendiness, from, to, bend),
     circle |-> circleOf(from, to, displacement(settings.bendiness, from, to, bend)),
     stroke |-> strokeOf(displacement(settings.bendiness, from, to, bend)),
     arrow |-> arrowOf(graph.flags, from, to, FALSE)]

drawEdge(from, to, bend, reverse) ==
    [op |-> "drawEdge", i |-> from, j |-> to, bend |-> bend, reverse |-> reverse,
     d |-> displacement(settings.bendiness, from, to, bend),
     circle |-> circleOf(from, to, displacement(settings.bendiness, from, to, bend)),
     stroke |-> strokeOf(displacement(settings.bendiness, from, to, bend)),
     arrow |-> arrowOf(graph.flags, from, to, reverse)]

skipSeen_Never(fl) == FALSE

(* "if (flags.simple) continue" of the two branches of a pair seen before *)
skipSeen(fl) == fl.simple

(* one iteration of the loop over the edges of draw() *)
DrawEdgeStep ==
    /\ pc = "edges"
    /\ ei < Len(graph.edges) - 1
    /\ LET fromIndex == graph.edges[ei + 1]
           toIndex == graph.edges[ei + 2]
       IN  IF IsUndefinedVertex(graph, fromIndex) \/ IsUndefinedVertex(graph, toIndex)
           THEN /\ RenderFailed(cancelRender("Undefined vertex in edge", TRUE), el)
                /\ UNCHANGED <<ei, seenEdges, commands>>
           ELSE IF touchesInvisible(graph, fromIndex, toIndex)
           THEN /\ RenderFailed(cancelRender(
                        "Edges may not be connected to invisible vertices", FALSE), el)
                /\ UNCHANGED <<ei, seenEdges, commands>>
           ELSE /\ ei' = ei + 2
                /\ UNCHANGED <<pc, err, el>>
                /\ IF seenHas(seenEdges, fromIndex, toIndex)
                   THEN LET bend == seenEdges[<<fromIndex, toIndex>>]
                        IN  /\ seenEdges' = seenSet(seenEdges, fromIndex, toIndex, bend + 1)
                            /\ commands' =
                                 IF skipSeen(graph.flags) THEN commands
                                 ELSE Append(commands,
                                             drawEdge(fromIndex, toIndex, bend, FALSE))
                   ELSE IF seenHas(seenEdges, toIndex, fromIndex)
                   THEN LET bend == seenEdges[<<toIndex, fromIndex>>]
                        IN  /\ seenEdges' = seenSet(seenEdges, toIndex, fromIndex, bend + 1)
                            /\ commands' =
                                 IF skipSeen(graph.flags) THEN commands
                                 ELSE Append(commands,
                                             drawEdge(toIndex, fromIndex, bend, TRUE))
                   ELSE /\ seenEdges' = seenSet(seenEdges, fromIndex, toIndex, 1)
                        /\ commands' = Append(commands,
                                              drawEdge(fromIndex, toIndex, 0, FALSE))
    /\ UNCHANGED <<line, i, firstLine, flags, vertices, edges, matrix, graph,
                   consumed, settings, draws, previous>>

(* draw: the loop over the vertices, which skips the invisible ones *)
RECURSIVE drawVertices(_, _)
drawVertices(g, index) ==
    IF index >= Len(g.vertices) THEN <<>>
    ELSE IF startsWith(g.vertices[index + 1], INVISIBLE_VERTEX_PREFIX)
    THEN drawVertices(g, index + 1)
    ELSE <<drawVertex(g, index)>> \o drawVertices(g, index + 1)

(* the loop over the vertices of draw(), and its return *)
DrawVertices ==
    /\ pc = "edges"
    /\ ~(ei < Len(graph.edges) - 1)
    /\ pc' = "drawn"
    /\ commands' = commands \o drawVertices(graph, 0)
    /\ UNCHANGED <<line, i, firstLine, flags, vertices, edges, matrix, graph, err,
                   ei, seenEdges, el, consumed, settings, draws, previous>>

Render == BeginDraw \/ DrawEdgeStep \/ DrawVertices

Next ==
    \/ \E l \in Lines : ParseLine(l)
    \/ EndOfLines
    \/ Render

Spec == Init /\ [][Next]_vars

NextMatrix ==
    \/ \E l \in MatrixSourceLines : ParseLine(l)
    \/ EndOfLines

SpecMatrix == Init /\ [][NextMatrix]_vars

(* the sources of the edge-drawing checks: parallel, reciprocal and loop *)
(* edges over a, b, c and the invisible _b, under several bendiness      *)
(* settings, drawn up to MaxDraws times                                  *)
DrawFlagLines == {FlagLine(ls) : ls \in {<<"d">>, <<"s">>, <<"d", "s">>}}

DrawVertexForms == {<<vA, vB, vC, vInvB>>}

DrawEdgeForms ==
    {<< <<vA, vB>>, <<vA, vB>>, <<vA, vB>>, <<vA, vB>> >>,
     << <<vB, vA>>, <<vA, vB>> >>,
     << <<vB, vA>>, <<vA, vB>>, <<vA, vB>>, <<vB, vA>>, <<vB, vA>>, <<vA, vB>>,
        <<vA, vB>> >>,
     << <<vA, vA>>, <<vA, vA>> >>,
     << <<vA, vInvB>> >>}

DrawPathForms == {<<vA, vB, vC>>}

DrawLines ==
    DrawFlagLines \cup {VertexLine(ns) : ns \in DrawVertexForms}
        \cup {EdgeLine(prs) : prs \in DrawEdgeForms}
        \cup {PathLine(ns) : ns \in DrawPathForms}

Bendiness == {0, 10}

InitDraw == \E b \in Bendiness : Enter([bendiness |-> b])

NextDraw ==
    \/ \E l \in DrawLines : ParseLine(l)
    \/ EndOfLines
    \/ Render
    \/ DrawAgain

SpecDraw == InitDraw /\ [][NextDraw]_vars

(* the sources of the line-filter checks: blank lines, comments, flags *)
(* lines at any position and lines of no grammar                       *)
SourceLines ==
    { <<>>,
      <<SP>>,
      <<Sym("/"), Sym("/"), SP, W(vC)>>,
      <<Sym("/"), Sym("/")>>,
      <<SP, W(vA), Sym(","), W(vB), SP, Sym("/"), Sym("/"), W(vC)>>,
      FlagLine(<<"d">>),
      FlagLine(<<"s", "x", "a">>) \o <<SP, Sym("/"), Sym("/"), W(<<"f">>)>>,
      <<SP>> \o FlagLine(<<"f">>),
      FlagLine(<<>>),
      VertexLine(<<vA>>),
      PathLine(<<vA, vB>>),
      EdgeLine(<< <<vB, vA>> >>),
      CompactRow(<<"2">>),
      <<Sym("!")>>,
      <<W(vA), Sym("-")>> }

NextSource ==
    \/ \E raw \in SourceLines : ParseLine(raw)
    \/ \E raw \in SourceLines : SkipLine(raw)
    \/ EndOfLines

SpecSource == Init /\ [][NextSource]_vars

-----------------------------------------------------------------------------
(* Vocabulary of the properties *)

IsVisible(name) == name = <<>> \/ name[1] # "_"

NumEdges(es) == Len(es) \div 2

EdgeFrom(es, e) == es[2 * e - 1]

EdgeTo(es, e) == es[2 * e]

(* a step that consumed a source line, and the step after the last line *)
LineStep == pc = "parse" /\ line' # NoLine /\ (i' = i + 1 \/ pc' = "failed")

EndStep == pc = "parse" /\ line' = NoLine /\ pc' # "parse"

UserParseError(e) == e.name = "ParseError"

(* the names a line of EdgeLines or PathLines refers to, left to right, and *)
(* the pairs of names it connects                                           *)
EdgeFormOf(l) == CHOOSE prs \in EdgeForms : EdgeLine(prs) = l

PathFormOf(l) == CHOOSE ns \in PathForms : PathLine(ns) = l

ReferencedNames(l) ==
    IF l \in EdgeLines
    THEN LET prs == EdgeFormOf(l)
         IN  [x \in 1..(2 * Len(prs)) |-> prs[(x + 1) \div 2][((x - 1) % 2) + 1]]
    ELSE PathFormOf(l)

ConnectedPairs(l) ==
    IF l \in EdgeLines THEN EdgeFormOf(l)
    ELSE LET ns == PathFormOf(l)
         IN  [m \in 1..(Len(ns) - 1) |-> <<ns[m], ns[m + 1]>>]

Declared(vs, name) == \E p \in 1..Len(vs) : vs[p] = name

RECURSIVE DeclareAtFirstMention(_, _)
DeclareAtFirstMention(vs, refs) ==
    IF refs = <<>> THEN vs
    ELSE DeclareAtFirstMention(
            IF Declared(vs, refs[1]) THEN vs ELSE Append(vs, refs[1]), Tail(refs))

FirstSlot(vs, name) ==
    (CHOOSE p \in 1..Len(vs) : vs[p] = name /\ \A q \in 1..(p - 1) : vs[q] # name) - 1

SlotPairs(vs, prs) ==
    [x \in 1..(2 * Len(prs)) |-> FirstSlot(vs, prs[(x + 1) \div 2][((x - 1) % 2) + 1])]

-----------------------------------------------------------------------------
(* C1: the edges sequence returned by a successful parse has even length  *)
(* and every entry e satisfies 0 <= e < |vertices|, so the renderer never *)
(* raises its unexpected 'Undefined vertex in edge' error                 *)
C1_EdgeIndicesInRange ==
    /\ Len(graph.edges) % 2 = 0
    /\ \A e \in 1..Len(graph.edges) :
          graph.edges[e] >= 0 /\ graph.edges[e] < Len(graph.vertices)
    /\ err.message # "Undefined vertex in edge"

C1_Witness ==
    /\ pc = "drawn"
    /\ Len(matrix) = 2
    /\ graph.vertices = <<vA, vInvB, vB>>
    /\ graph.edges = <<2, 0>>

(* C2: once a matrix row was consumed every later line that is no matrix  *)
(* row fails the parse with a user ParseError, and so does a matrix row   *)
(* that comes after an edge of an edge-list or path line; hence while     *)
(* matrix rows are held the last line consumed is a matrix row and no     *)
(* edge has come from another form                                        *)
C2_MatrixRowsContiguous ==
    /\ [](pc = "parse" /\ Len(matrix) > 0 => line \in MatrixLines /\ edges = <<>>)
    /\ [][LineStep /\ (\/ Len(matrix) > 0 /\ line' \notin MatrixLines
                       \/ Len(edges) > 0 /\ line' \in MatrixLines)
            => pc' = "failed" /\ UserParseError(err')]_vars

C2_Witness ==
    /\ pc = "failed"
    /\ line \in VertexLines
    /\ err.message = "An adjacency matrix cannot be combined with other edge definitions"

(* C3: on an edge-list or path line (no matrix row consumed before), a    *)
(* referenced name that is not declared fails the parse with the user     *)
(* ParseError 'Undefined vertex' when auto is unset; when auto is set the *)
(* line succeeds, each undeclared name is appended once at its first      *)
(* mention and every mention resolves to the first slot of its name       *)
C3_UndefinedVertexOrAuto ==
    [][LineStep /\ Len(matrix) = 0 /\ line' \in EdgeLines \cup PathLines
        => LET refs == ReferencedNames(line')
               undeclared == \E x \in 1..Len(refs) : ~Declared(vertices, refs[x])
           IN  /\ undeclared /\ ~flags.auto
                    => /\ pc' = "failed"
                       /\ UserParseError(err')
                       /\ err'.message \in {"Undefined vertex in edge on line",
                                            "Undefined vertex in path on line"}
               /\ flags.auto
                    => /\ pc' = "parse"
                       /\ vertices' = DeclareAtFirstMention(vertices, refs)
                       /\ edges' = edges \o SlotPairs(vertices', ConnectedPairs(line'))]_vars

C3_Witness ==
    /\ pc = "parsed"
    /\ graph.flags.auto
    /\ graph.vertices = <<vA, vB, vC>>
    /\ graph.edges = <<0, 1, 0, 1, 1, 2, 2, 0>>

-----------------------------------------------------------------------------
(* Vocabulary of the adjacency-matrix properties *)

VisibleSet(vs) == {p \in 1..Len(vs) : IsVisible(vs[p])}

NumVisible(vs) == Cardinality(VisibleSet(vs))

(* the 0-based index, in the full vertex sequence, of the k-th visible vertex *)
VisibleSlot(vs, k) ==
    (CHOOSE p \in VisibleSet(vs) : Cardinality({q \in VisibleSet(vs) : q < p}) = k) - 1

InvisibleBefore(vs, slot) == Cardinality({q \in 1..slot : ~IsVisible(vs[q])})

CountEdges(es, from, to) ==
    Cardinality({e \in 1..NumEdges(es) : EdgeFrom(es, e) = from /\ EdgeTo(es, e) = to})

(* the cell (r, c) as the flipped flag reads it *)
CellRead(m, fl, r, c) == IF fl.flipped THEN m[c + 1][r + 1] ELSE m[r + 1][c + 1]

Square(m, n) == Len(m) = n /\ \A r \in 1..Len(m) : Len(m[r]) = n

Symmetric(m) == \A r \in 1..Len(m) : \A c \in 1..Len(m) : m[r][c] = m[c][r]

Transpose(m) == [r \in 1..Len(m[1]) |-> [c \in 1..Len(m) |-> m[c][r]]]

RowWidth(l) ==
    IF \E ds \in CompactForms : CompactRow(ds) = l
    THEN Len(CHOOSE ds \in CompactForms : CompactRow(ds) = l)
    ELSE Len(CHOOSE runs \in SpacedForms : SpacedRow(runs) = l)

MatrixParsed == pc = "parsed" /\ Len(matrix) > 0

(* C4: with matrix rows, the parse succeeds only if every row has width n *)
(* and there are n rows, n the number of visible vertices; an uneven row, *)
(* a wrong number of rows or of columns gives a user ParseError, no graph *)
C4_MatrixDimensions ==
    /\ [](MatrixParsed => Square(matrix, NumVisible(graph.vertices)))
    /\ [](pc = "failed" => graph = NoGraph)
    /\ [][EndStep /\ Len(matrix) > 0
            /\ (\/ Len(matrix) # NumVisible(vertices)
                \/ Len(matrix[1]) # NumVisible(vertices))
            => pc' = "failed" /\ UserParseError(err')]_vars
    /\ [][LineStep /\ Len(matrix) > 0 /\ line' \in MatrixRowLines
            /\ RowWidth(line') # Len(matrix[1])
            => pc' = "failed" /\ UserParseError(err')]_vars

C4_Witness ==
    /\ MatrixParsed
    /\ Len(matrix) = 2
    /\ NumVisible(graph.vertices) < Len(graph.vertices)

(* C5: for a directed graph every cell (r, c), read as the flipped flag   *)
(* reads it and the diagonal included, yields exactly cell-value edges    *)
(* from visible vertex r to visible vertex c, in row-major order, and no  *)
(* other edge                                                             *)
C5_DirectedMatrixEdges ==
    MatrixParsed /\ graph.flags.directed
        => LET vs == graph.vertices
               es == graph.edges
               n == NumVisible(vs)
           IN  /\ \A r \in 0..(n - 1) : \A c \in 0..(n - 1) :
                    CountEdges(es, VisibleSlot(vs, r), VisibleSlot(vs, c))
                        = CellRead(matrix, graph.flags, r, c)
               /\ \A e \in 1..NumEdges(es) :
                    \E r \in 0..(n - 1) : \E c \in 0..(n - 1) :
                        /\ EdgeFrom(es, e) = VisibleSlot(vs, r)
                        /\ EdgeTo(es, e) = VisibleSlot(vs, c)
               /\ \A e \in 1..(NumEdges(es) - 1) :
                    \/ EdgeFrom(es, e) < EdgeFrom(es, e + 1)
                    \/ /\ EdgeFrom(es, e) = EdgeFrom(es, e + 1)
                       /\ EdgeTo(es, e) <= EdgeTo(es, e + 1)

C5_Witness ==
    /\ MatrixParsed
    /\ graph.flags.directed /\ ~graph.flags.flipped
    /\ graph.vertices = <<vInv, vA, vInvB, vB>>
    /\ matrix = << <<2, 1>>, <<1, 2>> >>
    /\ graph.edges = <<1, 1, 1, 1, 1, 3, 3, 1, 3, 3, 3, 3>>

(* the first row whose lower triangle holds a cell that differs from its  *)
(* mirror, and whether an odd diagonal entry lies in a row above it       *)
LowerAsymmetricRow(m) ==
    CHOOSE r \in 1..Len(m) :
        /\ \E c \in 1..(r - 1) : m[r][c] # m[c][r]
        /\ \A q \in 1..(r - 1) : \A c \in 1..(q - 1) : m[q][c] = m[c][q]

OddDiagonalAbove(m, row) == \E r \in 1..(row - 1) : m[r][r] % 2 = 1

UndirectedPairCounts ==
    MatrixParsed /\ ~graph.flags.directed
        => LET vs == graph.vertices
               es == graph.edges
               n == NumVisible(vs)
           IN  /\ Symmetric(matrix)
               /\ \A r \in 0..(n - 1) : \A c \in 0..(r - 1) :
                    CountEdges(es, VisibleSlot(vs, r), VisibleSlot(vs, c))
                      + CountEdges(es, VisibleSlot(vs, c), VisibleSlot(vs, r))
                        = matrix[r + 1][c + 1]

(* C6 as stated: an undirected parse of a matrix succeeds only if the     *)
(* matrix is symmetric, every asymmetric matrix fails with the user       *)
(* ParseError 'must be symmetrical', and on success each unordered pair   *)
(* gets exactly cell-value edges                                          *)
C6_AsStated ==
    /\ []UndirectedPairCounts
    /\ [][EndStep /\ ~flags.directed /\ Square(matrix, NumVisible(vertices))
            /\ Len(matrix) > 0 /\ ~Symmetric(matrix)
            => /\ pc' = "failed"
               /\ UserParseError(err')
               /\ err'.message
                    = "Adjacency matrix of an undirected graph must be symmetrical"]_vars

(* C6 amended: an undirected parse of a matrix succeeds only if the       *)
(* matrix is symmetric; an asymmetric matrix fails with a user ParseError *)
(* that is 'must be symmetrical' unless an odd diagonal entry lies in a   *)
(* row above the first asymmetric row, in which case it is the odd        *)
(* self-loop error; on success each unordered pair gets exactly           *)
(* cell-value edges                                                       *)
C6_SymmetricOrError ==
    /\ []UndirectedPairCounts
    /\ [][EndStep /\ ~flags.directed /\ Square(matrix, NumVisible(vertices))
            /\ Len(matrix) > 0 /\ ~Symmetric(matrix)
            => /\ pc' = "failed"
               /\ UserParseError(err')
               /\ err'.message
                    = IF OddDiagonalAbove(matrix, LowerAsymmetricRow(matrix))
                      THEN "All vertices in an adjacency matrix of an undirected graph must connect to itself an even amount of times"
                      ELSE "Adjacency matrix of an undirected graph must be symmetrical"]_vars

C6_Witness ==
    /\ pc = "failed"
    /\ line = NoLine
    /\ err.message = "Adjacency matrix of an undirected graph must be symmetrical"

(* C7: for an undirected graph an odd diagonal cell fails the parse with  *)
(* a user ParseError; an even diagonal value v yields exactly v/2         *)
(* self-loops on that visible vertex                                      *)
C7_UndirectedSelfLoops ==
    /\ [](MatrixParsed /\ ~graph.flags.directed
            => \A r \in 0..(NumVisible(graph.vertices) - 1) :
                  /\ matrix[r + 1][r + 1] % 2 = 0
                  /\ 2 * CountEdges(graph.edges, VisibleSlot(graph.vertices, r),
                                    VisibleSlot(graph.vertices, r))
                        = matrix[r + 1][r + 1])
    /\ [][EndStep /\ ~flags.directed /\ Square(matrix, NumVisible(vertices))
            /\ (\E r \in 1..Len(matrix) : matrix[r][r] % 2 = 1)
            => pc' = "failed" /\ UserParseError(err')]_vars

C7_Witness ==
    /\ MatrixParsed
    /\ ~graph.flags.directed
    /\ graph.vertices = <<vA, vB, vC, vD>>
    /\ matrix = << <<0, 0, 1, 1>>, <<0, 2, 1, 0>>, <<1, 1, 0, 0>>, <<1, 0, 0, 4>> >>
    /\ graph.edges = <<1, 1, 2, 0, 2, 1, 3, 0, 3, 3, 3, 3>>

(* C8: for a directed graph, parsing matrix M with flipped set yields the *)
(* edge sequence that parsing the transpose of M with flipped unset       *)
(* yields: cell (r, c) is taken from row c, column r                      *)
C8_FlippedIsTranspose ==
    MatrixParsed /\ graph.flags.directed /\ graph.flags.flipped
        => LET unflipped == materializeMatrix([graph.flags EXCEPT !.flipped = FALSE],
                                              graph.vertices, <<>>, Transpose(matrix))
               n == NumVisible(graph.vertices)
           IN  /\ unflipped.err = NoError
               /\ unflipped.edges = graph.edges
               /\ \A r \in 0..(n - 1) : \A c \in 0..(n - 1) :
                    CountEdges(graph.edges, VisibleSlot(graph.vertices, r),
                               VisibleSlot(graph.vertices, c))
                        = matrix[c + 1][r + 1]

C8_Witness ==
    /\ MatrixParsed
    /\ graph.flags.directed /\ graph.flags.flipped
    /\ matrix = << <<0, 1>>, <<0, 0>> >>
    /\ graph.vertices = <<vInv, vA, vInvB, vB>>
    /\ graph.edges = <<3, 1>>

InsertAt(vs, pos, name) == SubSeq(vs, 1, pos) \o <<name>> \o SubSeq(vs, pos + 1, Len(vs))

NamesOf(vs, es) == [x \in 1..Len(es) |-> vs[es[x] + 1]]

(* C9: matrix coordinate k is translated to the index of the k-th visible *)
(* vertex, k plus the number of invisible vertices before it; so no edge  *)
(* of a matrix has an invisible endpoint, and inserting an invisible      *)
(* vertex anywhere in the vertex sequence leaves the connected names      *)
(* unchanged                                                              *)
C9_OffsetTable ==
    /\ \A k0 \in 0..(NumVisible(vertices) - 1) :
          /\ k0 + vertexOffsets(vertices)[k0 + 1] = VisibleSlot(vertices, k0)
          /\ vertexOffsets(vertices)[k0 + 1]
                = InvisibleBefore(vertices, VisibleSlot(vertices, k0))
    /\ MatrixParsed
        => /\ \A x \in 1..Len(graph.edges) :
                IsVisible(graph.vertices[graph.edges[x] + 1])
           /\ \A pos \in 0..Len(graph.vertices) : \A name \in {vInv, vInvB} :
                LET more == InsertAt(graph.vertices, pos, name)
                    again == materializeMatrix(graph.flags, more, <<>>, matrix)
                IN  /\ again.err = NoError
                    /\ NamesOf(more, again.edges) = NamesOf(graph.vertices, graph.edges)

C9_Witness ==
    /\ MatrixParsed
    /\ ~graph.flags.directed /\ ~graph.flags.flipped
    /\ graph.vertices = <<vInv, vA, vInvB, vB>>
    /\ graph.edges = <<1, 1, 3, 1>>

-----------------------------------------------------------------------------
(* Vocabulary of the renderer properties *)

TouchesInvisibleName(g, e) ==
    \/ ~IsVisible(g.vertices[EdgeFrom(g.edges, e) + 1])
    \/ ~IsVisible(g.vertices[EdgeTo(g.edges, e) + 1])

HasInvisibleEdge(g) == \E e \in 1..NumEdges(g.edges) : TouchesInvisibleName(g, e)

FirstInvisibleEdge(g) ==
    CHOOSE e \in 1..NumEdges(g.edges) :
        /\ TouchesInvisibleName(g, e)
        /\ \A q \in 1..(e - 1) : ~TouchesInvisibleName(g, q)

(* C10: once the drawing context is obtained, rendering a model with an   *)
(* edge that has an endpoint whose name starts with '_' never completes:  *)
(* the edge loop does not get past the first such edge, whatever the      *)
(* simple flag, and the failure is the user-class RenderError             *)
C10_InvisibleEdgeFailsRender ==
    HasInvisibleEdge(graph)
        => /\ pc # "drawn"
           /\ pc = "edges" => ei <= 2 * (FirstInvisibleEdge(graph) - 1)
           /\ pc = "failed" /\ err.message # "Failed to get canvas context"
                => /\ err.name = "RenderError"
                   /\ err.message = "Edges may not be connected to invisible vertices"

C10_Witness ==
    /\ pc = "failed"
    /\ err.name = "RenderError"
    /\ graph.flags.simple
    /\ Len(commands) = 2
    /\ HasInvisibleEdge(graph)

-----------------------------------------------------------------------------
(* Vocabulary of the edge-drawing properties *)

IsDrawEdge(cmd) == cmd.op = "drawEdge"

EdgeCommands(cs) == SelectSeq(cs, IsDrawEdge)

SamePair(es, e, q) ==
    \/ EdgeFrom(es, e) = EdgeFrom(es, q) /\ EdgeTo(es, e) = EdgeTo(es, q)
    \/ EdgeFrom(es, e) = EdgeTo(es, q) /\ EdgeTo(es, e) = EdgeFrom(es, q)

(* the edges of the pair of edge e among the first k edges *)
PairEdges(es, e, k) == {q \in 1..k : SamePair(es, e, q)}

(* the edges among the first k that join the vertices of pr, either way *)
PairCount(es, pr, k) ==
    Cardinality({q \in 1..k : \/ <<es[2 * q - 1], es[2 * q]>> = pr
                              \/ <<es[2 * q], es[2 * q - 1]>> = pr})

EarlierOfPair(es, e) == Cardinality(PairEdges(es, e, e - 1))

FirstOfPair(es, e) == CHOOSE q \in PairEdges(es, e, e) : \A x \in PairEdges(es, e, e) : q <= x

IsFirstOfPair(es, e) == FirstOfPair(es, e) = e

Orientation(es, e) == <<EdgeFrom(es, e), EdgeTo(es, e)>>

(* the edges the loop of draw() has handled *)
Handled == ei \div 2

EdgeStep == pc = "edges" /\ ei' = ei + 2

Last(cs) == cs[Len(cs)]

(* C11: while draw() runs, the counters hold, for every pair among the    *)
(* handled edges, one entry under the orientation of the pair's first     *)
(* edge and none under the opposite one, its value the number of handled  *)
(* edges of the pair; the bend index of a drawn edge is the number of     *)
(* earlier edges of its pair, and without the simple flag every edge is   *)
(* drawn                                                                  *)
C11_BendCounters ==
    /\ [](pc \in {"edges", "drawn"}
            => /\ \A pr \in DOMAIN seenEdges :
                    /\ seenEdges[pr] = PairCount(graph.edges, pr, Handled)
                    /\ \E q \in 1..Handled :
                          /\ Orientation(graph.edges, q) = pr
                          /\ \A x \in 1..(q - 1) :
                                Orientation(graph.edges, x) # <<pr[2], pr[1]>>
                    /\ pr[1] # pr[2] => <<pr[2], pr[1]>> \notin DOMAIN seenEdges
               /\ \A e \in 1..Handled :
                    \/ Orientation(graph.edges, e) \in DOMAIN seenEdges
                    \/ <<EdgeTo(graph.edges, e), EdgeFrom(graph.edges, e)>>
                          \in DOMAIN seenEdges)
    /\ [][EdgeStep
            => /\ commands' # commands
                    => /\ commands' = Append(commands, Last(commands'))
                       /\ Last(commands').bend
                            = EarlierOfPair(graph.edges, Handled + 1)
               /\ ~graph.flags.simple => commands' # commands]_vars

C11_Witness ==
    /\ pc = "drawn"
    /\ graph.flags.simple
    /\ seenEdges = [pr \in {<<1, 0>>} |-> 7]

(* the displacement of bend index b in units of the bendiness *)
BendFactor(b) == IF b % 2 = 0 THEN b ELSE -(b + 1)

Displacements(cs) == [x \in 1..Len(EdgeCommands(cs)) |-> EdgeCommands(cs)[x].d]

(* C12: a drawn non-loop edge with bend index b is displaced by           *)
(* bendiness * ceil(b/2) * 2 * (-1)^b, which is 0, -2B, +2B, -4B, +4B for *)
(* b = 0..4, and it is stroked as a straight segment exactly when the     *)
(* displacement is 0                                                      *)
C12_Displacement ==
    /\ <<BendFactor(0), BendFactor(1), BendFactor(2), BendFactor(3), BendFactor(4)>>
          = <<0, -2, 2, -4, 4>>
    /\ \A x \in 1..Len(commands) :
          IsDrawEdge(commands[x]) /\ commands[x].i # commands[x].j
              => /\ commands[x].d = settings.bendiness * BendFactor(commands[x].bend)
                 /\ commands[x].stroke = "line" <=> commands[x].d = 0

C12_Witness ==
    /\ pc = "drawn"
    /\ settings.bendiness = 10
    /\ graph.edges = <<0, 1, 0, 1, 0, 1, 0, 1>>
    /\ Displacements(commands) = <<0, -20, 20, -40>>
    /\ [x \in 1..4 |-> EdgeCommands(commands)[x].stroke] = <<"line", "arc", "arc", "arc">>

(* two draw commands join the same unordered pair of vertices *)
SameEnds(c1, c2) ==
    \/ c1.i = c2.i /\ c1.j = c2.j
    \/ c1.i = c2.j /\ c1.j = c2.i

(* the displacement measured in the orientation from the lower to the *)
(* higher vertex index: the tangent of (j, i) is opposite to (i, j)   *)
CommonDisplacement(cmd) == IF cmd.i <= cmd.j THEN cmd.d ELSE -cmd.d

(* C13: with bendiness > 0 any two edges drawn by one call of draw()      *)
(* between the same unordered pair, self-loops on one vertex included,    *)
(* have different displacements in the common orientation of the pair     *)
C13_DistinctDisplacements ==
    settings.bendiness > 0
        => \A x \in 1..Len(commands) : \A y \in 1..Len(commands) :
              /\ x < y
              /\ IsDrawEdge(commands[x]) /\ IsDrawEdge(commands[y])
              /\ SameEnds(commands[x], commands[y])
              => CommonDisplacement(commands[x]) # CommonDisplacement(commands[y])

C13_Witness ==
    /\ pc = "drawn"
    /\ settings.bendiness > 0
    /\ \E x \in 1..Len(commands) : \E y \in 1..Len(commands) :
          /\ x < y
          /\ IsDrawEdge(commands[x]) /\ IsDrawEdge(commands[y])
          /\ commands[x].i # commands[x].j
          /\ SameEnds(commands[x], commands[y])
          /\ commands[y].reverse
    /\ \E x \in 1..Len(commands) : \E y \in 1..Len(commands) :
          /\ x < y
          /\ IsDrawEdge(commands[x]) /\ IsDrawEdge(commands[y])
          /\ commands[x].i = commands[x].j
          /\ SameEnds(commands[x], commands[y])

UnorderedPairs(es) == {{EdgeFrom(es, e), EdgeTo(es, e)} : e \in 1..NumEdges(es)}

(* C14: under the simple flag an edge is drawn exactly when it is the     *)
(* first edge of its unordered pair, in its own orientation and with bend *)
(* index 0; a later parallel or reciprocal edge issues no command, also   *)
(* in a directed graph; a completed draw() has drawn as many edges as     *)
(* there are distinct unordered pairs                                     *)
C14_SimpleDrawsFirstOnly ==
    /\ [][EdgeStep /\ graph.flags.simple
            => IF IsFirstOfPair(graph.edges, Handled + 1)
               THEN /\ Len(commands') = Len(commands) + 1
                    /\ SubSeq(commands', 1, Len(commands)) = commands
                    /\ IsDrawEdge(Last(commands'))
                    /\ <<Last(commands').i, Last(commands').j>>
                          = Orientation(graph.edges, Handled + 1)
                    /\ Last(commands').bend = 0
                    /\ ~Last(commands').reverse
               ELSE commands' = commands]_vars
    /\ [](pc = "drawn" /\ graph.flags.simple
            => Len(EdgeCommands(commands)) = Cardinality(UnorderedPairs(graph.edges)))

C14_Witness ==
    /\ pc = "drawn"
    /\ graph.flags.simple /\ graph.flags.directed
    /\ graph.edges = <<1, 0, 0, 1, 0, 1, 1, 2>>
    /\ Len(EdgeCommands(commands)) = 2

(* C15: an edge is drawn with its endpoints in the orientation of the     *)
(* first edge of its pair, and with the reverse flag exactly when its own *)
(* orientation is the opposite one; so the second edge of a pair bends to *)
(* the side the orientation of the first edge fixes: swapping the first   *)
(* two edges of a pair moves it to the other side                         *)
C15_FirstEdgeOrientation ==
    [][EdgeStep /\ commands' # commands
        => LET e == Handled + 1
               first == Orientation(graph.edges, FirstOfPair(graph.edges, e))
               cmd == Last(commands')
           IN  /\ <<cmd.i, cmd.j>> = first
               /\ cmd.reverse <=> Orientation(graph.edges, e) # first
               /\ cmd.bend = 1 /\ cmd.i # cmd.j
                    => CommonDisplacement(cmd)
                         = IF first[1] < first[2] THEN -2 * settings.bendiness
                           ELSE 2 * settings.bendiness]_vars

C15_Witness ==
    /\ pc = "drawn"
    /\ settings.bendiness = 10
    /\ graph.edges = <<1, 0, 0, 1>>
    /\ LET cmd == EdgeCommands(commands)[2]
       IN  /\ <<cmd.i, cmd.j>> = <<1, 0>>
           /\ cmd.reverse
           /\ CommonDisplacement(cmd) = 20

(* C16: a drawn edge carries an arrowhead exactly when the directed flag  *)
(* is set, and the arrowhead points from the from-vertex of the model     *)
(* edge to its to-vertex, also when the edge is drawn in the reversed     *)
(* orientation                                                            *)
C16_ArrowDirection ==
    [][EdgeStep /\ commands' # commands
        => Last(commands').arrow
              = IF graph.flags.directed
                THEN Orientation(graph.edges, Handled + 1)
                ELSE <<>>]_vars

C16_Witness ==
    /\ pc = "drawn"
    /\ graph.flags.directed
    /\ settings.bendiness = 10
    /\ graph.edges = <<1, 0, 0, 1, 0, 1, 1, 0, 1, 0, 0, 1, 0, 1>>
    /\ Displacements(commands) = <<0, -20, 20, -40, 40, -60, 60>>
    /\ \A x \in 1..7 : \A y \in 1..7 :
          EdgeCommands(commands)[y].d = EdgeCommands(commands)[x].d + 20
              => EdgeCommands(commands)[y].arrow # EdgeCommands(commands)[x].arrow

(* C17: a second call of draw() on the same renderer issues the same      *)
(* sequence of commands as the first; every call starts with empty bend   *)
(* counters, and no step of draw() changes the graph model or the         *)
(* settings                                                               *)
C17_DrawIsRepeatable ==
    /\ [](pc = "drawn" /\ draws >= 2 => commands = previous)
    /\ [][(pc \in {"parsed", "drawn"}) /\ pc' = "edges"
            => seenEdges' = NoSeenEdges]_vars
    /\ [][(pc \in {"parsed", "edges", "drawn"})
            => graph' = graph /\ settings' = settings]_vars

C17_Witness ==
    /\ pc = "drawn"
    /\ draws = 2
    /\ commands = previous
    /\ \E x \in 1..Len(previous) : IsDrawEdge(previous[x]) /\ previous[x].bend >= 2

(* C18 as stated: when draw() fails no draw command has been issued, *)
(* neither the background fill nor an edge before the failing one    *)
C18_NoCommandBeforeFailure ==
    pc = "failed" /\ err.name \in {"RenderError", "UnexpectedRenderError"}
        => commands = <<>>

-----------------------------------------------------------------------------
(* Vocabulary of the flags and line-number properties *)

HasLetter(l, c) == \E p \in 1..Len(l) : \E q \in 1..Len(l[p].s) : l[p].s[q] = c

StartsWithDash(l) == Len(l) >= 1 /\ l[1].t = "-"

FlagsOf(l) ==
    IF StartsWithDash(l)
    THEN [directed |-> HasLetter(l, "d"), simple |-> HasLetter(l, "s"),
          auto |-> HasLetter(l, "a"), flipped |-> HasLetter(l, "f")]
    ELSE [directed |-> FALSE, simple |-> FALSE, auto |-> FALSE, flipped |-> FALSE]

(* the flags are those of the first line that survives the filter, and *)
(* later steps of a parse that goes on leave them alone                *)
FlagsFromFirstLine ==
    /\ [](pc = "parse" /\ i = 0 => flags = FlagsOf(<<>>))
    /\ [](pc = "parsed" => graph.flags = flags)
    /\ [][LineStep /\ i = 0 /\ pc' # "failed" => flags' = FlagsOf(line')]_vars
    /\ [][pc = "parse" /\ pc' # "failed" /\ ~(LineStep /\ i = 0)
            => flags' = flags]_vars

LaterDashLine == LineStep /\ i >= 1 /\ StartsWithDash(line')

(* C19 as stated: the flags are all false unless the first line that is   *)
(* neither blank nor a comment starts with '-', and then exactly those    *)
(* whose letters occur in it are true; they never change afterwards, and  *)
(* a later line starting with '-' fails the parse as an invalid line      *)
C19_AsStated ==
    /\ FlagsFromFirstLine
    /\ [][LaterDashLine
            => /\ pc' = "failed"
               /\ UserParseError(err')
               /\ err'.message = "Invalid input on line"]_vars

(* C19 amended: as stated, except that a later line starting with '-'     *)
(* fails as an invalid line only when no matrix row was read before it;   *)
(* after a matrix row it fails with the user ParseError 'An adjacency     *)
(* matrix cannot be combined with other edge definitions'                 *)
C19_FlagsOnlyOnFirstLine ==
    /\ FlagsFromFirstLine
    /\ [][LaterDashLine
            => /\ pc' = "failed"
               /\ UserParseError(err')
               /\ err'.message
                    = IF Len(matrix) > 0
                      THEN "An adjacency matrix cannot be combined with other edge definitions"
                      ELSE "Invalid input on line"]_vars

C19_Witness ==
    /\ pc = "failed"
    /\ i >= 1
    /\ consumed > i
    /\ StartsWithDash(line)
    /\ err.message = "Invalid input on line"

(* the line is of none of the grammars of the loop of parseSource *)
MatchesNoGrammar(l, first) ==
    /\ ~(first /\ StartsWithDash(l))
    /\ ~EDGE_VALIDATE_PATTERN(l)
    /\ ~ADJACENCY_MATRIX_VALIDATE_PATTERN(l)
    /\ ~VERTEX_VALIDATE_PATTERN(l)
    /\ ~PATH_VALIDATE_PATTERN(l)

(* C20 as stated: a line of none of the grammars fails the parse with a   *)
(* user ParseError that names the 1-based number the line has in the      *)
(* source text, blank and comment-only lines before it counted            *)
C20_InvalidLineNumber ==
    [][LineStep /\ MatchesNoGrammar(line', firstLine)
        => /\ pc' = "failed"
           /\ UserParseError(err')
           /\ err'.message = "Invalid input on line"
           /\ err'.line = consumed + 1]_vars

-----------------------------------------------------------------------------
(* the sources of the layout checks: vertex lists with invisible vertices *)
(* between, before and after visible ones, an edge between visible        *)
(* vertices and an edge to an invisible one                               *)
LayoutVertexForms ==
    {<<vA>>, <<vA, vB>>, <<vInv>>, <<vA, vInvB, vInv, vD, vInv, vInv>>}

LayoutLines ==
    {VertexLine(ns) : ns \in LayoutVertexForms}
        \cup {EdgeLine(<< <<vA, vB>> >>), EdgeLine(<< <<vA, vInvB>> >>),
              FlagLine(<<"d">>)}

NextLayout ==
    \/ \E l \in LayoutLines : ParseLine(l)
    \/ EndOfLines
    \/ Render

SpecLayout == Init /\ [][NextLayout]_vars

IsDrawVertex(cmd) == cmd.op = "drawVertex"

VertexCommands(cs) == SelectSeq(cs, IsDrawVertex)

VisibleBefore(vs, slot) == Cardinality({q \in 1..slot : IsVisible(vs[q])})

(* C21 as stated: the vertex count of the layout, which divides the circle *)
(* into slots and whose parity decides the vertical shift of the center,   *)
(* is the number of visible vertices, and the slot of a vertex is its      *)
(* position among the visible vertices                                     *)
C21_AsStated ==
    pc = "drawn" =>
        \A x \in 1..Len(VertexCommands(commands)) :
            LET cmd == VertexCommands(commands)[x]
            IN  /\ cmd.position.slots = NumVisible(graph.vertices)
                /\ cmd.position.slot = VisibleBefore(graph.vertices, cmd.i)
                /\ cmd.center.shifted = (NumVisible(graph.vertices) % 2 = 1)

(* C21: the vertex count of the layout is the number of all vertices,     *)
(* visible and invisible: the circle is divided into |vertices| slots,    *)
(* the center is shifted exactly when |vertices| is odd, and the slot of  *)
(* a vertex is its index in the whole vertex sequence                     *)
C21_LayoutCountsAllVertices ==
    pc = "drawn" =>
        \A x \in 1..Len(VertexCommands(commands)) :
            LET cmd == VertexCommands(commands)[x]
            IN  /\ cmd.position.slots = Len(graph.vertices)
                /\ cmd.position.slot = cmd.i
                /\ cmd.center.shifted = (Len(graph.vertices) % 2 = 1)

C21_Witness ==
    /\ pc = "drawn"
    /\ graph.vertices = <<vInv, vA>>
    /\ \E x \in 1..Len(commands) :
          /\ commands[x].op = "drawVertex"
          /\ commands[x].label = vA
          /\ commands[x].position = [slot |-> 1, slots |-> 2]
          /\ ~commands[x].center.shifted

(* C22: a marker and a label are drawn for exactly the vertices whose name *)
(* does not start with an underscore, once each and in index order, while  *)
(* an invisible vertex still takes a slot: the vertex at index i of the    *)
(* whole sequence is placed at slot i of |vertices| slots                  *)
C22_InvisibleVerticesKeepSlots ==
    pc = "drawn" =>
        LET drawn == VertexCommands(commands)
        IN  /\ Len(drawn) = NumVisible(graph.vertices)
            /\ \A x \in 1..Len(drawn) :
                  /\ drawn[x].i = VisibleSlot(graph.vertices, x - 1)
                  /\ drawn[x].label = graph.vertices[drawn[x].i + 1]
                  /\ IsVisible(drawn[x].label)
                  /\ drawn[x].position = [slot |-> drawn[x].i,
                                          slots |-> Len(graph.vertices)]

C22_Witness ==
    /\ pc = "drawn"
    /\ graph.vertices = <<vA, vInvB, vInv, vD, vInv, vInv>>
    /\ VertexCommands(commands) =
          <<[op |-> "drawVertex", i |-> 0, label |-> vA,
             position |-> [slot |-> 0, slots |-> 6], center |-> [shifted |-> FALSE]],
            [op |-> "drawVertex", i |-> 3, label |-> vD,
             position |-> [slot |-> 3, slots |-> 6], center |-> [shifted |-> FALSE]]>>

-----------------------------------------------------------------------------
(* the sources of the list checks: vertex lists with names repeated within *)
(* a line and across lines, the edge list and the paths of the tests       *)
vE == <<"e">>

vF == <<"f">>

vG == <<"g">>

ListVertexForms ==
    {<<vA, vA>>, <<vA, vB, vC>>, <<vA, vB, vC, vD, vE, vF>>,
     <<vA, vB, vC, vD, vE, vF, vG>>}

ListEdgeForms == {<< <<vA, vB>>, <<vB, vC>>, <<vC, vA>> >>, << <<vB, vB>> >>}

ListPathForms ==
    {<<vA, vA, vA, vA, vA, vA>>, <<vB, vA, vF, vC, vD, vE>>, <<vC, vG>>}

ListLines ==
    {VertexLine(ns) : ns \in ListVertexForms}
        \cup {EdgeLine(prs) : prs \in ListEdgeForms}
        \cup {PathLine(ns) : ns \in ListPathForms}
        \cup {FlagLine(<<"a">>)}

NextLists ==
    \/ \E l \in ListLines : ParseLine(l)
    \/ EndOfLines

SpecLists == Init /\ [][NextLists]_vars

(* the line of the step is read and the loop goes on to the next line *)
LineRead(l) == LineStep /\ line' = l /\ pc' = "parse"

(* C23: a vertex-list line appends one slot per name occurrence, in the   *)
(* order of the line, without deduplication within the line or against    *)
(* earlier lines, and adds no edge; 'a,b,c,d,e,f,g' gives 7 vertices and  *)
(* no edges                                                               *)
C23_VertexLineAppendsSlots ==
    [][\A ns \in ListVertexForms :
          (LineStep /\ line' = VertexLine(ns)) =>
              /\ pc' = "parse"
              /\ vertices' = vertices \o ns
              /\ edges' = edges]_vars

C23_Witness ==
    /\ pc = "parsed"
    /\ graph.vertices = <<vA, vA, vA, vB, vC, vD, vE, vF, vG>>
    /\ graph.edges = <<>>

(* C24: an edge-list line with g groups that is read appends exactly g    *)
(* edges after the edges of earlier lines, the m-th of them joining the   *)
(* names of the m-th group from left to right; 'a,b,c' then               *)
(* '(a,b),(b,c),(c,a)' gives the edges (0,1), (1,2), (2,0)                *)
C24_EdgeListAppendsGroups ==
    [][\A prs \in ListEdgeForms :
          LineRead(EdgeLine(prs)) =>
              /\ Len(edges') = Len(edges) + 2 * Len(prs)
              /\ SubSeq(edges', 1, Len(edges)) = edges
              /\ \A m \in 1..Len(prs) :
                    /\ vertices'[edges'[Len(edges) + 2 * m - 1] + 1] = prs[m][1]
                    /\ vertices'[edges'[Len(edges) + 2 * m] + 1] = prs[m][2]]_vars

C24_Witness ==
    /\ pc = "parsed"
    /\ graph.vertices = <<vA, vB, vC>>
    /\ graph.edges = <<1, 1, 0, 1, 1, 2, 2, 0>>

(* C25: a path line with k >= 2 names that is read appends exactly k - 1  *)
(* edges, the m-th from name m to name m + 1, so a name repeated in a row *)
(* gives a self-loop: 'a-a-a-a-a-a' gives five loops on a, and            *)
(* 'b-a-f-c-d-e' over a..f gives (b,a), (a,f), (f,c), (c,d), (d,e)        *)
C25_PathAppendsConsecutivePairs ==
    [][\A ns \in ListPathForms :
          LineRead(PathLine(ns)) =>
              /\ Len(edges') = Len(edges) + 2 * (Len(ns) - 1)
              /\ SubSeq(edges', 1, Len(edges)) = edges
              /\ \A m \in 1..(Len(ns) - 1) :
                    /\ vertices'[edges'[Len(edges) + 2 * m - 1] + 1] = ns[m]
                    /\ vertices'[edges'[Len(edges) + 2 * m] + 1] = ns[m + 1]]_vars

C25_Witness ==
    /\ pc = "parsed"
    /\ graph.vertices = <<vA, vB, vC, vD, vE, vF>>
    /\ graph.edges = <<0, 0, 0, 0, 0, 0, 0, 0, 0, 0, 1, 0, 0, 5, 5, 2, 2, 3, 3, 4>>

(* C29: a name of an edge list or a path resolves to the lowest index at *)
(* which it stands in the vertex sequence at that moment, so when a name *)
(* is declared more than once its later slots are never an endpoint      *)
C29_ReferenceResolvesToFirstSlot ==
    /\ [](\A x \in 1..Len(edges) :
            edges[x] = FirstSlot(vertices, vertices[edges[x] + 1]))
    /\ [](pc = "parsed" =>
            \A x \in 1..Len(graph.edges) :
                graph.edges[x] = FirstSlot(graph.vertices, graph.vertices[graph.edges[x] + 1]))
    /\ [][\A l \in ListLines \ {VertexLine(ns) : ns \in ListVertexForms} :
            LineRead(l) =>
                \A x \in (Len(edges) + 1)..Len(edges') :
                    /\ edges'[x] = FirstSlot(vertices', vertices'[edges'[x] + 1])
                    /\ Declared(vertices, vertices'[edges'[x] + 1]) =>
                          edges'[x] = FirstSlot(vertices, vertices'[edges'[x] + 1])]_vars

C29_Witness ==
    /\ pc = "parsed"
    /\ graph.vertices = <<vA, vB, vC, vA, vA, vA, vB, vC>>
    /\ graph.edges = <<0, 1, 1, 2, 2, 0, 0, 0, 0, 0, 0, 0, 0, 0, 0, 0>>

-----------------------------------------------------------------------------
(* the sources of the row checks: the rows of two-vertex and one-vertex *)
(* matrices in compact and in spaced form, with cells above 9           *)
RowCompactForms ==
    {<<"2">>, <<"0", "0">>, <<"0", "1">>, <<"1", "0">>, <<"1", "5">>}

RowSpacedForms ==
    {<< <<"0">>, <<"0">> >>, << <<"0">>, <<"1">> >>, << <<"1">>, <<"0">> >>,
     << <<"0">>, <<"1", "5">> >>, << <<"1", "5">>, <<"0">> >>}

RowLines ==
    {CompactRow(ds) : ds \in RowCompactForms}
        \cup {SpacedRow(runs) : runs \in RowSpacedForms}
        \cup {VertexLine(<<vA>>), VertexLine(<<vA, vB>>), FlagLine(<<"d">>)}

NextRows ==
    \/ \E l \in RowLines : ParseLine(l)
    \/ EndOfLines

SpecRows == Init /\ [][NextRows]_vars

RECURSIVE Decimal(_)
Decimal(run) ==
    IF Len(run) = 1 THEN DigitValue(run[1])
    ELSE 10 * Decimal(SubSeq(run, 1, Len(run) - 1)) + DigitValue(run[Len(run)])

(* the digits of a compact row, each as a run of its own *)
Spaced(ds) == [c \in 1..Len(ds) |-> <<ds[c]>>]

(* C26: a matrix row that is one run of digits is read as one cell per    *)
(* digit, and a row of two or more runs separated by whitespace as one    *)
(* integer per run ('0 15' is the cells 0 and 15); so a compact row of    *)
(* two or more digits is read as the same cells as its digits separated   *)
(* by spaces, and both forms give the same matrix                         *)
C26_CompactAndSpacedRows ==
    /\ [][\A ds \in RowCompactForms :
            LineRead(CompactRow(ds)) =>
                matrix' = Append(matrix, [c \in 1..Len(ds) |-> DigitValue(ds[c])])]_vars
    /\ [][\A runs \in RowSpacedForms :
            LineRead(SpacedRow(runs)) =>
                matrix' = Append(matrix, [c \in 1..Len(runs) |-> Decimal(runs[c])])]_vars
    /\ [](\A ds \in RowCompactForms :
            Len(ds) >= 2 => matrixRow(CompactRow(ds)) = matrixRow(SpacedRow(Spaced(ds))))

C26_Witness ==
    /\ pc = "parsed"
    /\ matrix = << <<0, 15>>, <<1, 5>> >>
    /\ graph.flags.directed
    /\ Len(graph.edges) = 2 * 21

-----------------------------------------------------------------------------
IsLoopCommand(cmd) == cmd.op = "drawEdge" /\ cmd.i = cmd.j

LoopCommands(cs) == SelectSeq(cs, IsLoopCommand)

(* C27: the k-th self-loop drawn on a vertex, k counted from 0, has bend   *)
(* index k and displacement bendiness * (k + 1) * 2; with bendiness > 0    *)
(* the displacement is positive and grows from each loop of a vertex to    *)
(* the next, and the loop is drawn as an arc, not as a straight segment;   *)
(* a self-loop never has the reverse flag and its circle is never fitted   *)
(* through three points                                                    *)
C27_SelfLoopDisplacement ==
    (pc \in {"edges", "drawn"}) =>
        LET loops == LoopCommands(commands)
        IN  \A x \in 1..Len(loops) :
                /\ loops[x].bend =
                      Cardinality({y \in 1..(x - 1) : loops[y].i = loops[x].i})
                /\ loops[x].d = settings.bendiness * (loops[x].bend + 1) * 2
                /\ ~loops[x].reverse
                /\ loops[x].circle.by = "diameter"
                /\ settings.bendiness > 0 =>
                      /\ loops[x].d > 0
                      /\ loops[x].stroke = "arc"
                      /\ \A y \in 1..(x - 1) :
                            loops[y].i = loops[x].i => loops[y].d < loops[x].d

C27_Witness ==
    /\ pc = "drawn"
    /\ settings.bendiness = 10
    /\ Len(LoopCommands(commands)) = 2
    /\ LoopCommands(commands)[1].d = 20
    /\ LoopCommands(commands)[2].d = 40
    /\ LoopCommands(commands)[2].stroke = "arc"

(* C28: the renderer calls findCircle only for an edge between two         *)
(* different vertices whose displacement is not zero, so findCircle is     *)
(* never called with three points on one line                              *)
C28_CircleFitNeverCollinear ==
    \A x \in 1..Len(commands) :
        (commands[x].op = "drawEdge" /\ commands[x].circle.by = "findCircle") =>
            /\ commands[x].i # commands[x].j
            /\ commands[x].d # 0
            /\ commands[x].circle.result # "NaN"

-----------------------------------------------------------------------------
HasCanvas(children) == \E x \in 1..Len(children) : IsCanvas(children[x])

(* C30: when codeBlockPostProcessor has handled a source, the container   *)
(* holds either one canvas and no error element, or one error element and *)
(* no canvas; a failing parse creates no canvas, and the canvas created   *)
(* before a failing render is removed again                               *)
C30_CanvasOrError ==
    /\ [](pc = "drawn" => el = <<"kale-graph-canvas">>)
    /\ [](pc = "failed" => el = <<"kale-graph-error">>)
    /\ [](pc = "parse" => ~HasCanvas(el))
    /\ [][(pc = "parse" /\ pc' = "failed") => ~HasCanvas(el')]_vars
    /\ [][(pc = "edges" /\ pc' = "failed") => (HasCanvas(el) /\ ~HasCanvas(el'))]_vars

C30_Witness ==
    /\ pc = "failed"
    /\ err.name = "RenderError"
    /\ Len(commands) >= 1
    /\ el = <<"kale-graph-error">>

====
